---- MODULE Spec2Model ----
(***************************************************************************)
(* Model of src/src/auth.ts: the OAuth2 token lifecycle (refresh with      *)
(* cooldown, attempt counter, error classification, retry loop) and the    *)
(* encrypted token store.                                                  *)
(*                                                                         *)
(* JavaScript runs one callback at a time, so every action below is one    *)
(* synchronous stretch of code: from a call (or the resumption after an    *)
(* await) up to the next await, return or throw.                           *)
(*                                                                         *)
(* Time is counted in ticks; retryDelay, the refresh threshold and the     *)
(* token lifetimes are given in ticks.                                     *)
(***************************************************************************)
EXTENDS Integers, FiniteSets, Sequences, TLC

VARIABLES
    now,          \* Date.now()
    tokenData,    \* the module-level `let tokenData` (Null or a TokenData)
    file,         \* the contents of TOKEN_STORE_PATH
    pc,           \* per caller: where its pending call stands
    op,           \* per caller: the exported function it called
    retryCount,   \* per caller: the local of getValidAccessToken
    wakeAt,       \* per caller: when its setTimeout fires
    result,       \* per caller: what its call returned or threw
    posts,        \* per caller: provider requests issued by its current call
    sleeps,       \* per caller: sleeps taken by its current call
    hist,         \* per caller: the refreshAccessToken() invocations of its current call
    lastResponse, \* per caller: the provider's answer to its last invocation's request
    entry,        \* per caller: how tokenData stood when its current call started
    attemptAt,    \* time of the last refresh call that passed the cooldown check
    renewed,      \* a refresh or code exchange has succeeded since attemptAt
    issued,       \* provider requests sent since the last successful refresh or exchange
    stamps,       \* calls that updated the attempt counters since then
    loaded,       \* what loadTokenData() gave, if called since the file last changed
    saved         \* the record of the last successful save, while the file is as it left it

vars == <<now, tokenData, file, pc, op, retryCount, wakeAt, result, posts,
          sleeps, hist, lastResponse, entry, attemptAt, renewed, issued, stamps,
          loaded, saved>>

(***************************************************************************)
(* Bounds of the model.                                                    *)
(***************************************************************************)
MaxTime == 5          \* the clock stops here
MaxAttempts == 4      \* refreshAccessToken is not called once refreshAttempts reached this
MaxExpiresIn == 3     \* the longest lifetime the provider reports

AllCallers == {"c1", "c2"}
Callers == {"c1"}                    \* the callers of the sequential specification

(***************************************************************************)
(* Configuration: TOKEN_REFRESH_CONFIG (maxRetries, retryDelay and the     *)
(* refresh threshold are set by the operator; the values here are the      *)
(* model's, in ticks) and the lifetime assumed for a static token.         *)
(***************************************************************************)
maxRetries == 2
retryDelay == 1
refreshThreshold == 1
staticLifetime == 4

(***************************************************************************)
(* Values.                                                                 *)
(***************************************************************************)
Undefined == -1                      \* an optional numeric field that is not set
Null == [null |-> TRUE]              \* tokenData = null
Truthy(x) == x # Undefined /\ x # 0  \* JavaScript truthiness of number | undefined
OrZero(x) == IF Truthy(x) THEN x ELSE 0   \* (x || 0)

AccessTokens == {1, 2}
StaticAccessToken == 1
StaticScope == {"files.content.read", "files.content.write"}
GrantedScope == {"files.content.read"}
ExpiresIn == {1, MaxExpiresIn}

ERROR_MESSAGES == [
    TOKEN_EXPIRED |-> "Access token has expired. Attempting to refresh...",
    REFRESH_FAILED |-> "Failed to refresh access token after multiple attempts.",
    INVALID_GRANT |-> "The refresh token is invalid or has been revoked. Please re-authenticate.",
    NETWORK_ERROR |-> "Network error occurred while refreshing token. Will retry...",
    RATE_LIMIT |-> "Rate limit exceeded. Please try again later.",
    SERVER_ERROR |-> "Dropbox server error occurred. Will retry..."]

\* new TokenRefreshError(message, code, retryable)
TokenRefreshError(message, code, retryable) ==
    [cls |-> "TokenRefreshError", code |-> code, retryable |-> retryable,
     message |-> message, attempts |-> Undefined]

\* new McpError(code, message); `attempts` is the number a message embeds
McpError(code, message, attempts) ==
    [cls |-> "McpError", code |-> code, retryable |-> FALSE,
     message |-> message, attempts |-> attempts]

NoError == [cls |-> "none", code |-> "none", retryable |-> FALSE,
            message |-> "none", attempts |-> Undefined]

Returned(token) == [kind |-> "returned", token |-> token, error |-> NoError]
Thrown(error) == [kind |-> "thrown", token |-> Undefined, error |-> error]
NoResult == [kind |-> "none", token |-> Undefined, error |-> NoError]

(***************************************************************************)
(* The encrypted token store.  encryptData and decryptData live in         *)
(* security-utils.js: authenticated encryption of the serialised record    *)
(* under the operator's key.  Serialisation is JSON: a field whose value   *)
(* is undefined is left out, and reads back as undefined.                  *)
(***************************************************************************)
Fields == {"accessToken", "refreshToken", "expiresAt", "scope",
           "lastRefreshAttempt", "refreshAttempts", "codeVerifier"}
OptionalFields == {"lastRefreshAttempt", "refreshAttempts", "codeVerifier"}

EncryptionKey == "key-A"
EncryptionKeys == {"key-A", "key-B"}

Serialise(data) ==
    [f \in {g \in Fields : ~(g \in OptionalFields /\ data[g] = Undefined)} |-> data[f]]

Deserialise(text) ==
    [accessToken |-> text["accessToken"],
     refreshToken |-> text["refreshToken"],
     expiresAt |-> text["expiresAt"],
     scope |-> text["scope"],
     lastRefreshAttempt |->
        IF "lastRefreshAttempt" \in DOMAIN text THEN text["lastRefreshAttempt"] ELSE Undefined,
     refreshAttempts |->
        IF "refreshAttempts" \in DOMAIN text THEN text["refreshAttempts"] ELSE Undefined,
     codeVerifier |->
        IF "codeVerifier" \in DOMAIN text THEN text["codeVerifier"] ELSE Undefined]

encryptData(data) ==
    [kind |-> "encrypted", key |-> EncryptionKey, payload |-> Serialise(data)]

\* decryptData throws when the authentication tag does not verify under the key
decryptThrows(encryptedData) == encryptedData.key # EncryptionKey

decryptData(encryptedData) == Deserialise(encryptedData.payload)

Absent == [kind |-> "absent"]        \* no file at TOKEN_STORE_PATH
Corrupt == [kind |-> "corrupt"]      \* a file that JSON.parse rejects

LoadFailed == McpError("InternalError",
    "Failed to load token data. The token file may be corrupted or encryption key may be invalid.",
    Undefined)
SaveFailed == McpError("InternalError",
    "Failed to save token data. Please check if the encryption key is properly set.",
    Undefined)

loadTokenData_swallows(f) ==
    IF f.kind # "absent" /\ ~(f.kind = "corrupt" \/ decryptThrows(f))
    THEN [kind |-> "returned", data |-> decryptData(f), error |-> NoError]
    ELSE [kind |-> "returned", data |-> Null, error |-> NoError]

\* loadTokenData(): what it returns or throws, given the file
loadTokenData(f) ==
    IF f.kind # "absent"
    THEN IF f.kind = "corrupt" \/ decryptThrows(f)
         THEN [kind |-> "thrown", data |-> Null, error |-> LoadFailed]
         ELSE [kind |-> "returned", data |-> decryptData(f), error |-> NoError]
    ELSE [kind |-> "returned", data |-> Null, error |-> NoError]

\* How a save can go: it succeeds; encryptData or the opening of the file throws
\* (the file is as before); the write throws after the file was truncated.
SaveOutcomes == {"ok", "throws", "throws_truncated"}

saveTokenData_noWrite(data, outcome, f, td) ==
    IF outcome = "ok"
    THEN [thrown |-> FALSE, file |-> f, tokenData |-> data]
    ELSE [thrown |-> TRUE,
          file |-> IF outcome = "throws_truncated" THEN Corrupt ELSE f,
          tokenData |-> td]

saveTokenData_assignsFirst(data, outcome, f, td) ==
    IF outcome = "ok"
    THEN [thrown |-> FALSE, file |-> encryptData(data), tokenData |-> data]
    ELSE [thrown |-> TRUE,
          file |-> IF outcome = "throws_truncated" THEN Corrupt ELSE f,
          tokenData |-> data]

\* saveTokenData(data): the file and tokenData afterwards, and whether it threw
saveTokenData(data, outcome, f, td) ==
    IF outcome = "ok"
    THEN [thrown |-> FALSE, file |-> encryptData(data), tokenData |-> data]
    ELSE [thrown |-> TRUE,
          file |-> IF outcome = "throws_truncated" THEN Corrupt ELSE f,
          tokenData |-> td]

(***************************************************************************)
(* refreshAccessToken(): the stretch before the request is sent.           *)
(***************************************************************************)
NoRefreshToken == McpError("InvalidRequest",
    "No refresh token available. Please authenticate first by visiting the authorization URL.",
    Undefined)
CooldownError == TokenRefreshError(
    "Too many refresh attempts. Please wait before trying again.", "RATE_LIMIT", TRUE)
MaxRetriesError == TokenRefreshError(
    ERROR_MESSAGES.REFRESH_FAILED, "MAX_RETRIES_EXCEEDED", FALSE)

\* !tokenData?.refreshToken
hasNoRefreshToken(td) == IF td = Null THEN TRUE ELSE td.refreshToken = ""

inCooldown_short(td, t) ==
    Truthy(td.lastRefreshAttempt) /\ (t - td.lastRefreshAttempt) < retryDelay - 1

\* the cooldown check at time t
inCooldown(td, t) ==
    Truthy(td.lastRefreshAttempt) /\ (t - td.lastRefreshAttempt) < retryDelay

stampAttempt_noCount(td, t) ==
    [td EXCEPT !.lastRefreshAttempt = t,
               !.refreshAttempts = OrZero(td.refreshAttempts)]

\* the attempt counters once updated
stampAttempt(td, t) ==
    [td EXCEPT !.lastRefreshAttempt = t,
               !.refreshAttempts = OrZero(td.refreshAttempts) + 1]

attemptsExceeded_equal(td) == td.refreshAttempts = maxRetries + 1

attemptsExceeded_late(td) == td.refreshAttempts > maxRetries + 1

\* the check of the attempt counter, made on the updated counters
attemptsExceeded(td) == td.refreshAttempts > maxRetries

\* What the call does up to its await: it throws `error` or sends the request
\* ("post"); `tokenData` is the record as the stretch leaves it.
refreshAccessTokenStart(td, t) ==
    IF hasNoRefreshToken(td)
    THEN [kind |-> "thrown", error |-> NoRefreshToken, tokenData |-> td, stamped |-> FALSE]
    ELSE IF inCooldown(td, t)
    THEN [kind |-> "thrown", error |-> CooldownError, tokenData |-> td, stamped |-> FALSE]
    ELSE IF attemptsExceeded(stampAttempt(td, t))
    THEN [kind |-> "thrown", error |-> MaxRetriesError,
          tokenData |-> stampAttempt(td, t), stamped |-> TRUE]
    ELSE [kind |-> "post", error |-> NoError,
          tokenData |-> stampAttempt(td, t), stamped |-> TRUE]

(***************************************************************************)
(* refreshAccessToken(): the provider's answer.                            *)
(*   A failure is an AxiosError: with a response (status, body.error) or   *)
(*   without one (network failure, timeout).                               *)
(***************************************************************************)
NoResponse == [received |-> FALSE, status |-> 0, error |-> "none", access_token |-> Undefined]
Statuses == {400, 401, 429, 500, 503}
BodyErrors == {"invalid_grant", "none"}
Failures ==
    {NoResponse} \cup
    {[received |-> TRUE, status |-> st, error |-> e, access_token |-> Undefined] :
        st \in Statuses, e \in BodyErrors}
NotAsked == [received |-> FALSE, status |-> Undefined, error |-> "none",
             access_token |-> Undefined]
Succeeded(access_token) ==
    [received |-> TRUE, status |-> 200, error |-> "none", access_token |-> access_token]

classify_every401(response) ==
    IF response.status = 401
    THEN TokenRefreshError(ERROR_MESSAGES.INVALID_GRANT, "INVALID_GRANT", FALSE)
    ELSE IF response.status = 429
    THEN TokenRefreshError(ERROR_MESSAGES.RATE_LIMIT, "RATE_LIMIT", TRUE)
    ELSE IF response.status >= 500
    THEN TokenRefreshError(ERROR_MESSAGES.SERVER_ERROR, "SERVER_ERROR", TRUE)
    ELSE IF ~response.received
    THEN TokenRefreshError(ERROR_MESSAGES.NETWORK_ERROR, "NETWORK_ERROR", TRUE)
    ELSE TokenRefreshError("Token refresh failed: <message>", "UNKNOWN_ERROR", TRUE)

\* the catch block of refreshAccessToken on an AxiosError
classify(response) ==
    IF response.status = 401 /\ response.error = "invalid_grant"
    THEN TokenRefreshError(ERROR_MESSAGES.INVALID_GRANT, "INVALID_GRANT", FALSE)
    ELSE IF response.status = 429
    THEN TokenRefreshError(ERROR_MESSAGES.RATE_LIMIT, "RATE_LIMIT", TRUE)
    ELSE IF response.status >= 500
    THEN TokenRefreshError(ERROR_MESSAGES.SERVER_ERROR, "SERVER_ERROR", TRUE)
    ELSE IF ~response.received
    THEN TokenRefreshError(ERROR_MESSAGES.NETWORK_ERROR, "NETWORK_ERROR", TRUE)
    ELSE TokenRefreshError("Token refresh failed: <message>", "UNKNOWN_ERROR", TRUE)

\* the catch block on an error that is no AxiosError (saveTokenData threw)
GenericError == TokenRefreshError("Token refresh failed: <message>", "UNKNOWN_ERROR", TRUE)

newTokenData_keepStamp(td, access_token, expires_in, t) ==
    [td EXCEPT !.accessToken = access_token,
               !.expiresAt = t + expires_in,
               !.refreshAttempts = 0]

newTokenData_keepAccessToken(td, access_token, expires_in, t) ==
    [td EXCEPT !.expiresAt = t + expires_in,
               !.refreshAttempts = 0,
               !.lastRefreshAttempt = Undefined]

newTokenData_keepAttempts(td, access_token, expires_in, t) ==
    [td EXCEPT !.accessToken = access_token,
               !.expiresAt = t + expires_in,
               !.lastRefreshAttempt = Undefined]

newTokenData_noSpread(td, access_token, expires_in, t) ==
    [td EXCEPT !.accessToken = access_token,
               !.expiresAt = t + expires_in,
               !.refreshAttempts = 0,
               !.lastRefreshAttempt = Undefined,
               !.codeVerifier = Undefined]

\* the TokenData a successful response builds
newTokenData(td, access_token, expires_in, t) ==
    [td EXCEPT !.accessToken = access_token,
               !.expiresAt = t + expires_in,
               !.refreshAttempts = 0,
               !.lastRefreshAttempt = Undefined]

(***************************************************************************)
(* getValidAccessToken().                                                  *)
(***************************************************************************)
NoTokenData == McpError("InvalidRequest",
    "No token data available. Please authenticate first by visiting the authorization URL.",
    Undefined)
RefreshFailed == McpError("InvalidRequest", ERROR_MESSAGES.REFRESH_FAILED, Undefined)

isStale_doubleThreshold(td, t) == t >= (td.expiresAt - 2 * refreshThreshold)

\* the token is expired or will expire soon
isStale(td, t) == t >= (td.expiresAt - refreshThreshold)

catchRefreshError_retriesAll(error, rc) ==
    IF error.cls = "TokenRefreshError"
    THEN IF rc + 1 < maxRetries
         THEN [kind |-> "sleep", retryCount |-> rc + 1, error |-> NoError]
         ELSE [kind |-> "thrown", retryCount |-> rc + 1,
               error |-> McpError("InvalidRequest",
                                  "Token refresh failed after <n> attempts: <message>", rc + 1)]
    ELSE [kind |-> "thrown", retryCount |-> rc,
          error |-> McpError("InvalidRequest",
                             "Token refresh failed after <n> attempts: <message>", rc)]

catchRefreshError_retriesMcpError(error, rc) ==
    IF error.cls = "TokenRefreshError" /\ ~error.retryable
    THEN [kind |-> "thrown", retryCount |-> rc,
          error |-> McpError("InvalidRequest", error.message, Undefined)]
    ELSE IF rc + 1 < maxRetries
    THEN [kind |-> "sleep", retryCount |-> rc + 1, error |-> NoError]
    ELSE [kind |-> "thrown", retryCount |-> rc + 1,
          error |-> McpError("InvalidRequest",
                             "Token refresh failed after <n> attempts: <message>", rc + 1)]

catchRefreshError_noCount(error, rc) ==
    IF error.cls = "TokenRefreshError"
    THEN IF ~error.retryable
         THEN [kind |-> "thrown", retryCount |-> rc,
               error |-> McpError("InvalidRequest", error.message, Undefined)]
         ELSE [kind |-> "sleep", retryCount |-> rc, error |-> NoError]
    ELSE [kind |-> "thrown", retryCount |-> rc,
          error |-> McpError("InvalidRequest",
                             "Token refresh failed after <n> attempts: <message>", rc)]

\* the catch block of the retry loop: throw, or sleep and go round again
catchRefreshError(error, rc) ==
    IF error.cls = "TokenRefreshError"
    THEN IF ~error.retryable
         THEN [kind |-> "thrown", retryCount |-> rc,
               error |-> McpError("InvalidRequest", error.message, Undefined)]
         ELSE IF rc + 1 < maxRetries
         THEN [kind |-> "sleep", retryCount |-> rc + 1, error |-> NoError]
         ELSE [kind |-> "thrown", retryCount |-> rc + 1,
               error |-> McpError("InvalidRequest",
                                  "Token refresh failed after <n> attempts: <message>", rc + 1)]
    ELSE [kind |-> "thrown", retryCount |-> rc,
          error |-> McpError("InvalidRequest",
                             "Token refresh failed after <n> attempts: <message>", rc)]

(***************************************************************************)
(* Initial states: the module has just been loaded.  tokenData is the      *)
(* static token of DROPBOX_ACCESS_TOKEN, or what loadTokenData() returned  *)
(* (a file that does not load stops the process before it serves a call).  *)
(* A file holds what an earlier process saved: the record of a code        *)
(* exchange or of a successful refresh.                                    *)
(***************************************************************************)
StartTime == 1
CodeVerifier == 7
RefreshToken == "refresh-token"

staticTokenData(t) ==
    [accessToken |-> StaticAccessToken, refreshToken |-> "",
     expiresAt |-> t + staticLifetime, scope |-> StaticScope,
     lastRefreshAttempt |-> Undefined, refreshAttempts |-> Undefined,
     codeVerifier |-> Undefined]

\* the TokenData a code exchange builds
exchangedTokenData(access_token, refresh_token, expires_in, scope, codeVerifier, t) ==
    [accessToken |-> access_token, refreshToken |-> refresh_token,
     expiresAt |-> t + expires_in, scope |-> scope,
     lastRefreshAttempt |-> Undefined, refreshAttempts |-> Undefined,
     codeVerifier |-> codeVerifier]

SavedEarlier ==
    {[d EXCEPT !.refreshAttempts = ra] :
        d \in {exchangedTokenData(1, RefreshToken, e, GrantedScope, CodeVerifier, 0) :
                  e \in 1..(StartTime + MaxExpiresIn)},
        ra \in {Undefined, 0}}

NothingLoaded == [kind |-> "none", data |-> Null, error |-> NoError]

InitCallers ==
    /\ pc = [c \in AllCallers |-> "idle"]
    /\ op = [c \in AllCallers |-> "none"]
    /\ retryCount = [c \in AllCallers |-> 0]
    /\ wakeAt = [c \in AllCallers |-> 0]
    /\ result = [c \in AllCallers |-> NoResult]
    /\ posts = [c \in AllCallers |-> 0]
    /\ sleeps = [c \in AllCallers |-> 0]
    /\ hist = [c \in AllCallers |-> <<>>]
    /\ lastResponse = [c \in AllCallers |-> NotAsked]
    /\ entry = [c \in AllCallers |-> "none"]
    /\ attemptAt = Undefined
    /\ renewed = FALSE
    /\ issued = 0
    /\ stamps = 0
    /\ loaded = NothingLoaded
    /\ saved = Null

Init ==
    /\ now = StartTime
    /\ \/ /\ file = Absent
          /\ tokenData = staticTokenData(now)
       \/ /\ file \in {Absent} \cup {encryptData(d) : d \in SavedEarlier}
          /\ tokenData = loadTokenData(file).data
    /\ InitCallers

(***************************************************************************)
(* What a caller's call does next.                                         *)
(***************************************************************************)
\* the record of one refreshAccessToken() invocation: when it was made, whether
\* it sent a request, and the code of the error it threw ("OK" if it returned,
\* "pending" while the request is out)
Invocation(at, posted, code, retryable) ==
    [at |-> at, posted |-> posted, code |-> code, retryable |-> retryable]

Conclude(h, code, retryable) ==
    [h EXCEPT ![Len(h)].code = code, ![Len(h)].retryable = retryable]

Last(h) == h[Len(h)]

Finish(c, res) ==
    /\ pc' = [pc EXCEPT ![c] = "done"]
    /\ result' = [result EXCEPT ![c] = res]
    /\ UNCHANGED <<wakeAt, sleeps>>

Sleep_short(c) ==
    /\ pc' = [pc EXCEPT ![c] = "sleep"]
    /\ wakeAt' = [wakeAt EXCEPT ![c] = now + retryDelay - 1]
    /\ sleeps' = [sleeps EXCEPT ![c] = @ + 1]
    /\ UNCHANGED result

\* await new Promise(resolve => setTimeout(resolve, retryDelay))
Sleep(c) ==
    /\ pc' = [pc EXCEPT ![c] = "sleep"]
    /\ wakeAt' = [wakeAt EXCEPT ![c] = now + retryDelay]
    /\ sleeps' = [sleeps EXCEPT ![c] = @ + 1]
    /\ UNCHANGED result

\* refreshAccessToken() threw `error`: the caller of refresh gets it, the retry
\* loop of getValidAccessToken catches it
Handle(c, o, error) ==
    IF o = "refreshAccessToken"
    THEN Finish(c, Thrown(error)) /\ UNCHANGED retryCount
    ELSE LET h == catchRefreshError(error, retryCount[c]) IN
         /\ retryCount' = [retryCount EXCEPT ![c] = h.retryCount]
         /\ IF h.kind = "sleep" THEN Sleep(c) ELSE Finish(c, Thrown(h.error))

\* one invocation of refreshAccessToken() by caller c, up to its await
Invoke(c, o) ==
    LET r == refreshAccessTokenStart(tokenData, now) IN
    /\ tokenData' = r.tokenData
    /\ attemptAt' = IF r.stamped THEN now ELSE attemptAt
    /\ renewed' = IF r.stamped THEN FALSE ELSE renewed
    /\ stamps' = IF r.stamped THEN stamps + 1 ELSE stamps
    /\ issued' = IF r.kind = "post" THEN issued + 1 ELSE issued
    /\ IF r.kind = "post"
       THEN /\ pc' = [pc EXCEPT ![c] = "await_post"]
            /\ posts' = [posts EXCEPT ![c] = @ + 1]
            /\ hist' = [hist EXCEPT ![c] = Append(@, Invocation(now, TRUE, "pending", FALSE))]
            /\ UNCHANGED <<retryCount, wakeAt, result, sleeps>>
       ELSE /\ Handle(c, o, r.error)
            /\ hist' = [hist EXCEPT ![c] =
                    Append(@, Invocation(now, FALSE, r.error.code, r.error.retryable))]
            /\ UNCHANGED posts
    /\ lastResponse' = [lastResponse EXCEPT ![c] = NotAsked]
    /\ UNCHANGED <<now, file, loaded, saved>>

\* the store after a saveTokenData(data) that went as sv says
Stored(sv, data) ==
    /\ saved' = IF ~sv.thrown THEN data ELSE IF sv.file = file THEN saved ELSE Null
    /\ loaded' = IF sv.file = file THEN loaded ELSE NothingLoaded

\* the bound on refreshAttempts
Bounded ==
    IF tokenData = Null THEN TRUE ELSE OrZero(tokenData.refreshAttempts) < MaxAttempts

\* how tokenData stands for a refresh: no attempt counted, no cooldown running
entryState(td, t) ==
    IF hasNoRefreshToken(td) THEN "no_refresh_token"
    ELSE IF OrZero(td.refreshAttempts) = 0 /\ ~inCooldown(td, t) THEN "clean"
    ELSE "dirty"

(***************************************************************************)
(* Actions.                                                                *)
(***************************************************************************)
\* a caller calls the exported refreshAccessToken()
CallRefresh(c) ==
    /\ pc[c] = "idle"
    /\ Bounded
    /\ op' = [op EXCEPT ![c] = "refreshAccessToken"]
    /\ entry' = [entry EXCEPT ![c] = entryState(tokenData, now)]
    /\ Invoke(c, "refreshAccessToken")

\* a caller calls getValidAccessToken(): up to its return, throw or first await
CallGetValid(c) ==
    /\ pc[c] = "idle"
    /\ Bounded
    /\ op' = [op EXCEPT ![c] = "getValidAccessToken"]
    /\ entry' = [entry EXCEPT ![c] = entryState(tokenData, now)]
    /\ IF tokenData = Null
       THEN /\ Finish(c, Thrown(NoTokenData))
            /\ UNCHANGED <<now, tokenData, file, retryCount, posts, hist,
                           lastResponse, attemptAt, renewed, issued, stamps, loaded, saved>>
       ELSE IF ~isStale(tokenData, now)
       THEN /\ Finish(c, Returned(tokenData.accessToken))
            /\ UNCHANGED <<now, tokenData, file, retryCount, posts, hist,
                           lastResponse, attemptAt, renewed, issued, stamps, loaded, saved>>
       ELSE IF retryCount[c] < maxRetries
       THEN Invoke(c, "getValidAccessToken")
       ELSE /\ Finish(c, Thrown(RefreshFailed))
            /\ UNCHANGED <<now, tokenData, file, retryCount, posts, hist,
                           lastResponse, attemptAt, renewed, issued, stamps, loaded, saved>>

\* the timer of a sleeping retry loop fires: the loop goes round again
WakeUp(c) ==
    /\ pc[c] = "sleep"
    /\ now >= wakeAt[c]
    /\ Bounded
    /\ IF retryCount[c] < maxRetries
       THEN Invoke(c, "getValidAccessToken")
       ELSE /\ Finish(c, Thrown(RefreshFailed))
            /\ UNCHANGED <<now, tokenData, file, retryCount, posts, hist,
                           lastResponse, attemptAt, renewed, issued, stamps, loaded, saved>>
    /\ UNCHANGED <<op, entry>>

\* the provider answers a refresh request with a new access token
PostSucceeds(c, access_token, expires_in, outcome) ==
    /\ pc[c] = "await_post"
    /\ LET new == newTokenData(tokenData, access_token, expires_in, now)
           sv == saveTokenData(new, outcome, file, tokenData)
       IN /\ file' = sv.file
          /\ tokenData' = sv.tokenData
          /\ renewed' = (renewed \/ ~sv.thrown)
          /\ issued' = IF sv.thrown THEN issued ELSE 0
          /\ stamps' = IF sv.thrown THEN stamps ELSE 0
          /\ Stored(sv, new)
          /\ IF sv.thrown
             THEN /\ Handle(c, op[c], GenericError)
                  /\ hist' = [hist EXCEPT ![c] =
                          Conclude(@, GenericError.code, GenericError.retryable)]
             ELSE /\ Finish(c, Returned(new.accessToken))
                  /\ hist' = [hist EXCEPT ![c] = Conclude(@, "OK", FALSE)]
                  /\ UNCHANGED retryCount
    /\ lastResponse' = [lastResponse EXCEPT ![c] = Succeeded(access_token)]
    /\ UNCHANGED <<now, op, posts, entry, attemptAt>>

\* the request of a refresh fails: an error status, or no response at all
PostFails(c, response) ==
    /\ pc[c] = "await_post"
    /\ Handle(c, op[c], classify(response))
    /\ hist' = [hist EXCEPT ![c] =
            Conclude(@, classify(response).code, classify(response).retryable)]
    /\ lastResponse' = [lastResponse EXCEPT ![c] = response]
    /\ UNCHANGED <<now, tokenData, file, op, posts, entry, attemptAt,
                   renewed, issued, stamps, loaded, saved>>

\* the caller takes the result of its call
Return(c) ==
    /\ pc[c] = "done"
    /\ pc' = [pc EXCEPT ![c] = "idle"]
    /\ op' = [op EXCEPT ![c] = "none"]
    /\ retryCount' = [retryCount EXCEPT ![c] = 0]
    /\ wakeAt' = [wakeAt EXCEPT ![c] = 0]
    /\ result' = [result EXCEPT ![c] = NoResult]
    /\ posts' = [posts EXCEPT ![c] = 0]
    /\ sleeps' = [sleeps EXCEPT ![c] = 0]
    /\ hist' = [hist EXCEPT ![c] = <<>>]
    /\ lastResponse' = [lastResponse EXCEPT ![c] = NotAsked]
    /\ entry' = [entry EXCEPT ![c] = "none"]
    /\ UNCHANGED <<now, tokenData, file, attemptAt, renewed, issued, stamps, loaded, saved>>

\* exchangeCodeForTokens(code, codeVerifier) gets the provider's tokens
ExchangeSucceeds(access_token, expires_in, outcome) ==
    /\ LET new == exchangedTokenData(access_token, RefreshToken, expires_in,
                                     GrantedScope, CodeVerifier, now)
           sv == saveTokenData(new, outcome, file, tokenData)
       IN /\ file' = sv.file
          /\ tokenData' = sv.tokenData
          /\ renewed' = (renewed \/ ~sv.thrown)
          /\ issued' = IF sv.thrown THEN issued ELSE 0
          /\ stamps' = IF sv.thrown THEN stamps ELSE 0
          /\ Stored(sv, new)
    /\ UNCHANGED <<now, pc, op, retryCount, wakeAt, result, posts, sleeps, hist,
                   lastResponse, entry, attemptAt>>

\* time passes
Tick ==
    /\ now < MaxTime
    /\ now' = now + 1
    /\ UNCHANGED <<tokenData, file, pc, op, retryCount, wakeAt, result, posts,
                   sleeps, hist, lastResponse, entry, attemptAt, renewed, issued, stamps, loaded, saved>>

Next ==
    \/ \E c \in Callers : CallRefresh(c)
    \/ \E c \in Callers : CallGetValid(c)
    \/ \E c \in Callers : WakeUp(c)
    \/ \E c \in Callers, a \in AccessTokens, e \in ExpiresIn, o \in SaveOutcomes :
          PostSucceeds(c, a, e, o)
    \/ \E c \in Callers, r \in Failures : PostFails(c, r)
    \/ \E c \in Callers : Return(c)
    \/ \E a \in AccessTokens, e \in ExpiresIn, o \in SaveOutcomes : ExchangeSucceeds(a, e, o)
    \/ Tick

Spec == Init /\ [][Next]_vars

(***************************************************************************)
(* Several callers at once.  refreshAccessToken and getValidAccessToken    *)
(* are async and module-level tokenData is shared, so a second caller can  *)
(* run while the first one awaits its request or sleeps.  The inputs are   *)
(* narrowed: the stored token is about to expire, a provider failure is a  *)
(* 503, and a save goes through.                                           *)
(***************************************************************************)
ConcurrentFailures == {r \in Failures : r.status = 503 /\ r.error = "none"}

RefreshedAccessToken == 2

InitConcurrent ==
    /\ now = StartTime
    /\ file \in {encryptData(d) : d \in {e \in SavedEarlier :
                      e.refreshAttempts = Undefined /\ isStale(e, StartTime + 1)
                                                   /\ ~isStale(e, StartTime)}}
    /\ tokenData = loadTokenData(file).data
    /\ InitCallers

NextConcurrent ==
    \/ \E c \in AllCallers : CallRefresh(c)
    \/ \E c \in AllCallers : CallGetValid(c)
    \/ \E c \in AllCallers : WakeUp(c)
    \/ \E c \in AllCallers : PostSucceeds(c, RefreshedAccessToken, MaxExpiresIn, "ok")
    \/ \E c \in AllCallers, r \in ConcurrentFailures : PostFails(c, r)
    \/ \E c \in AllCallers : Return(c)
    \/ ExchangeSucceeds(StaticAccessToken, MaxExpiresIn, "ok")
    \/ Tick

ConcurrentSpec == InitConcurrent /\ [][NextConcurrent]_vars

(***************************************************************************)
(* The token store on its own: saveTokenData and loadTokenData are         *)
(* exported, and the file is exposed to its surroundings: it can be        *)
(* damaged, removed, or come from a process that used another key.         *)
(***************************************************************************)
TokenStates ==
    [accessToken : AccessTokens, refreshToken : {"", RefreshToken},
     expiresAt : {StartTime, MaxExpiresIn}, scope : {GrantedScope, StaticScope},
     lastRefreshAttempt : {Undefined, 0, StartTime},
     refreshAttempts : {Undefined, 0, maxRetries},
     codeVerifier : {Undefined, CodeVerifier}]

UNCHANGED_callers ==
    UNCHANGED <<now, pc, op, retryCount, wakeAt, result, posts, sleeps, hist,
                lastResponse, entry, attemptAt, renewed, issued, stamps>>

InitStore ==
    /\ now = StartTime
    /\ tokenData = Null
    /\ file \in {Absent, Corrupt}
    /\ InitCallers

\* saveTokenData(data) is called
Save(data, outcome) ==
    /\ LET sv == saveTokenData(data, outcome, file, tokenData)
       IN /\ file' = sv.file
          /\ tokenData' = sv.tokenData
          /\ Stored(sv, data)
    /\ UNCHANGED_callers

\* loadTokenData() is called
Load ==
    /\ loaded' = loadTokenData(file)
    /\ UNCHANGED <<tokenData, file, saved>>
    /\ UNCHANGED_callers

\* the file is damaged: JSON.parse will reject it
Damage ==
    /\ file.kind # "absent"
    /\ file' = Corrupt
    /\ loaded' = NothingLoaded
    /\ saved' = Null
    /\ UNCHANGED tokenData
    /\ UNCHANGED_callers

\* the file is removed
Remove ==
    /\ file.kind # "absent"
    /\ file' = Absent
    /\ loaded' = NothingLoaded
    /\ saved' = Null
    /\ UNCHANGED tokenData
    /\ UNCHANGED_callers

\* the file is replaced by one written under another encryption key
Rekey(key) ==
    /\ file.kind = "encrypted"
    /\ key # file.key
    /\ file' = [file EXCEPT !.key = key]
    /\ loaded' = NothingLoaded
    /\ saved' = Null
    /\ UNCHANGED tokenData
    /\ UNCHANGED_callers

NextStore ==
    \/ \E d \in TokenStates, o \in SaveOutcomes : Save(d, o)
    \/ Load
    \/ Damage
    \/ Remove
    \/ \E k \in EncryptionKeys : Rekey(k)

StoreSpec == InitStore /\ [][NextStore]_vars

(***************************************************************************)
(* Properties.                                                             *)
(***************************************************************************)
\* this step is an invocation of refreshAccessToken() by caller c
Invokes(c) == Len(hist'[c]) = Len(hist[c]) + 1

\* this step is a call of getValidAccessToken() by caller c
CallsGetValid(c) == pc[c] = "idle" /\ op'[c] = "getValidAccessToken"

\* the invocation of this step threw `error` without sending a request
RejectedWith(c, error) ==
    /\ ~Last(hist'[c]).posted
    /\ Last(hist'[c]).code = error.code
    /\ Last(hist'[c]).retryable = error.retryable
    /\ posts'[c] = posts[c]
    /\ pc'[c] # "await_post"
    /\ op'[c] = "refreshAccessToken" => result'[c] = Thrown(error)

\* C1: getValidAccessToken() on a token that is not within refreshThreshold of
\* its expiry returns the current accessToken at once, sends no request and
\* leaves tokenData (and the file) as they were.
C1_FreshTokenReturned ==
    [][\A c \in AllCallers :
          (CallsGetValid(c)
           /\ tokenData # Null
           /\ now < tokenData.expiresAt - refreshThreshold)
          => /\ pc'[c] = "done"
             /\ result'[c] = Returned(tokenData.accessToken)
             /\ posts'[c] = 0
             /\ hist'[c] = <<>>
             /\ tokenData' = tokenData
             /\ file' = file]_vars

\* a fresh token was returned although attempt counters are set
C1_Witness ==
    \E c \in AllCallers :
        /\ pc[c] = "done"
        /\ op[c] = "getValidAccessToken"
        /\ result[c].kind = "returned"
        /\ hist[c] = <<>>
        /\ tokenData.refreshAttempts > 0
        /\ Truthy(tokenData.lastRefreshAttempt)

\* C2 as stated: a refresh() call made less than retryDelay after any earlier
\* attempt (a call that passed the cooldown check) is rejected with the
\* retryable RATE_LIMIT error and sends no request.
C2_CooldownAfterAnyAttempt ==
    [][\A c \in AllCallers :
          (Invokes(c)
           /\ ~hasNoRefreshToken(tokenData)
           /\ attemptAt # Undefined
           /\ now - attemptAt < retryDelay)
          => RejectedWith(c, CooldownError)]_vars

\* C2 amended: the same, for an attempt that no successful refresh and no code
\* exchange has followed.
C2_CooldownAfterUnansweredAttempt ==
    [][\A c \in AllCallers :
          (Invokes(c)
           /\ ~hasNoRefreshToken(tokenData)
           /\ attemptAt # Undefined
           /\ ~renewed
           /\ now - attemptAt < retryDelay)
          => RejectedWith(c, CooldownError)]_vars

\* a call was rejected by the cooldown
C2_Witness ==
    \E c \in AllCallers :
        /\ hist[c] # <<>>
        /\ ~Last(hist[c]).posted
        /\ Last(hist[c]).code = "RATE_LIMIT"
        /\ Last(hist[c]).at - attemptAt < retryDelay
        /\ ~renewed

\* C3 as stated: once refreshAttempts exceeds maxRetries, every refresh() call
\* is rejected with the non-retryable MAX_RETRIES_EXCEEDED error and sends no
\* request.
C3_LockedOutAlwaysMaxRetries ==
    [][\A c \in AllCallers :
          (Invokes(c)
           /\ ~hasNoRefreshToken(tokenData)
           /\ OrZero(tokenData.refreshAttempts) > maxRetries)
          => RejectedWith(c, MaxRetriesError)]_vars

\* C3 amended: once refreshAttempts exceeds maxRetries, every refresh() call is
\* rejected without a request: with MAX_RETRIES_EXCEEDED when at least
\* retryDelay has passed since the last attempt, with the retryable RATE_LIMIT
\* error when it has not.
C3_LockedOutNoRequest ==
    [][\A c \in AllCallers :
          (Invokes(c)
           /\ ~hasNoRefreshToken(tokenData)
           /\ OrZero(tokenData.refreshAttempts) > maxRetries)
          => IF now - attemptAt < retryDelay
             THEN RejectedWith(c, CooldownError)
             ELSE RejectedWith(c, MaxRetriesError)]_vars

\* a call found refreshAttempts above maxRetries and threw MAX_RETRIES_EXCEEDED
C3_Witness ==
    \E c \in AllCallers :
        /\ hist[c] # <<>>
        /\ Last(hist[c]).code = "MAX_RETRIES_EXCEEDED"
        /\ ~Last(hist[c]).posted
        /\ tokenData.refreshAttempts > maxRetries + 1

\* this step is the return of refreshAccessToken() with an access token
RefreshReturns(c) ==
    /\ pc[c] = "await_post"
    /\ Last(hist'[c]).code = "OK"

\* C4: when refreshAccessToken() returns a token, tokenData has refreshAttempts
\* 0 and no lastRefreshAttempt, its accessToken is the token returned, and the
\* file holds that record (loading it gives tokenData).
C4_SuccessResetsAndPersists ==
    [][\A c \in AllCallers :
          RefreshReturns(c)
          => /\ tokenData'.refreshAttempts = 0
             /\ tokenData'.lastRefreshAttempt = Undefined
             /\ result'[c] = Returned(tokenData'.accessToken)
             /\ tokenData'.accessToken = lastResponse'[c].access_token
             /\ loadTokenData(file') = [kind |-> "returned", data |-> tokenData',
                                        error |-> NoError]]_vars

\* a refresh succeeded after an attempt that failed
C4_Witness ==
    \E c \in AllCallers :
        /\ pc[c] = "done"
        /\ Len(hist[c]) > 1
        /\ Last(hist[c]).code = "OK"
        /\ tokenData.refreshAttempts = 0
        /\ result[c].token # StaticAccessToken

\* this step is the provider's answer 401 invalid_grant to caller c
InvalidGrantAnswer(c) ==
    /\ pc[c] = "await_post"
    /\ pc'[c] # "await_post"
    /\ lastResponse'[c].status = 401
    /\ lastResponse'[c].error = "invalid_grant"

\* C5: on the answer 401 invalid_grant, refreshAccessToken() throws the
\* non-retryable INVALID_GRANT error, and getValidAccessToken() throws at once:
\* no sleep, no further invocation, no further request.
C5_InvalidGrantSurfaces ==
    [][\A c \in AllCallers :
          InvalidGrantAnswer(c)
          => /\ Last(hist'[c]).code = "INVALID_GRANT"
             /\ ~Last(hist'[c]).retryable
             /\ pc'[c] = "done"
             /\ result'[c].kind = "thrown"
             /\ result'[c].error.message = ERROR_MESSAGES.INVALID_GRANT
             /\ op[c] = "refreshAccessToken" =>
                   result'[c].error = TokenRefreshError(ERROR_MESSAGES.INVALID_GRANT,
                                                        "INVALID_GRANT", FALSE)
             /\ op[c] = "getValidAccessToken" => result'[c].error.cls = "McpError"
             /\ sleeps'[c] = sleeps[c]
             /\ posts'[c] = posts[c]
             /\ Len(hist'[c]) = Len(hist[c])]_vars

\* getValidAccessToken() threw on invalid_grant in its second round
C5_Witness ==
    \E c \in AllCallers :
        /\ pc[c] = "done"
        /\ op[c] = "getValidAccessToken"
        /\ lastResponse[c].status = 401
        /\ lastResponse[c].error = "invalid_grant"
        /\ Len(hist[c]) = 2
        /\ result[c].kind = "thrown"

\* every request of caller c's current call was answered with a 5xx status
OnlyServerErrors(c) ==
    \A i \in 1..Len(hist[c]) : hist[c][i].posted => hist[c][i].code = "SERVER_ERROR"

\* C6: a getValidAccessToken() call on a stale token that starts with no attempt
\* counted and no cooldown running, and whose requests are all answered 5xx,
\* ends after exactly maxRetries invocations, each of which sent a request (none
\* was rejected by the cooldown) at least retryDelay after the one before, with
\* maxRetries - 1 sleeps, and throws the refresh-failure error.
C6_OutageExhaustsRetries ==
    \A c \in Callers :
        (/\ pc[c] = "done"
         /\ op[c] = "getValidAccessToken"
         /\ entry[c] = "clean"
         /\ hist[c] # <<>>
         /\ OnlyServerErrors(c))
        => /\ Len(hist[c]) = maxRetries
           /\ \A i \in 1..Len(hist[c]) : hist[c][i].posted
           /\ posts[c] = maxRetries
           /\ sleeps[c] = maxRetries - 1
           /\ \A i \in 1..(Len(hist[c]) - 1) : hist[c][i + 1].at - hist[c][i].at >= retryDelay
           /\ result[c] = Thrown(McpError("InvalidRequest",
                   "Token refresh failed after <n> attempts: <message>", maxRetries))

\* the retry loop ran dry on 5xx answers
C6_Witness ==
    \E c \in Callers :
        /\ pc[c] = "done"
        /\ op[c] = "getValidAccessToken"
        /\ entry[c] = "clean"
        /\ Len(hist[c]) = maxRetries
        /\ OnlyServerErrors(c)
        /\ posts[c] = maxRetries
        /\ lastResponse[c].status = 503

\* C7: when an invocation of the retry loop succeeds after invocations that
\* failed with retryable errors, getValidAccessToken() returns the access token
\* of that response and is done: it invokes refreshAccessToken() no more.
C7_ReturnsFirstSuccess ==
    [][\A c \in Callers :
          /\ (RefreshReturns(c) /\ op[c] = "getValidAccessToken")
             => /\ pc'[c] = "done"
                /\ result'[c] = Returned(lastResponse'[c].access_token)
                /\ Len(hist'[c]) <= maxRetries
                /\ \A i \in 1..(Len(hist'[c]) - 1) :
                      hist'[c][i].code # "OK" /\ hist'[c][i].retryable
          /\ (pc[c] = "done" /\ result[c].kind = "returned")
             => ~Invokes(c) /\ posts'[c] <= posts[c]]_vars

\* getValidAccessToken() returned the token of its second invocation
C7_Witness ==
    \E c \in Callers :
        /\ pc[c] = "done"
        /\ op[c] = "getValidAccessToken"
        /\ Len(hist[c]) = 2
        /\ hist[c][1].retryable
        /\ Last(hist[c]).code = "OK"
        /\ result[c] = Returned(lastResponse[c].access_token)
        /\ result[c].token # StaticAccessToken

\* the classification the table of error classes gives a failed request
Tabled(response) ==
    CASE response.status = 401 /\ response.error = "invalid_grant" -> <<"INVALID_GRANT", FALSE>>
      [] response.status = 429 -> <<"RATE_LIMIT", TRUE>>
      [] response.status >= 500 -> <<"SERVER_ERROR", TRUE>>
      [] ~response.received -> <<"NETWORK_ERROR", TRUE>>
      [] OTHER -> <<"UNKNOWN_ERROR", TRUE>>

\* caller c's last invocation ended on a failed request
RequestFailed(c) == lastResponse[c] \in Failures

\* C8: the error of a failed request is the one the table gives for its status,
\* body error and response flag; every failure gets one of the five codes; only
\* INVALID_GRANT is not retryable.
C8_ClassificationTable ==
    \A c \in AllCallers :
        RequestFailed(c)
        => /\ <<Last(hist[c]).code, Last(hist[c]).retryable>> = Tabled(lastResponse[c])
           /\ Last(hist[c]).code \in {"INVALID_GRANT", "RATE_LIMIT", "SERVER_ERROR",
                                      "NETWORK_ERROR", "UNKNOWN_ERROR"}
           /\ ~Last(hist[c]).retryable => Last(hist[c]).code = "INVALID_GRANT"
           /\ op[c] = "refreshAccessToken"
                 => /\ result[c].kind = "thrown"
                    /\ result[c].error.cls = "TokenRefreshError"
                    /\ result[c].error.code = Last(hist[c]).code
                    /\ result[c].error.retryable = Last(hist[c]).retryable

\* a 401 whose body does not say invalid_grant was classified
C8_Witness ==
    \E c \in AllCallers :
        /\ lastResponse[c].status = 401
        /\ lastResponse[c].error # "invalid_grant"
        /\ Last(hist[c]).code = "UNKNOWN_ERROR"
        /\ Last(hist[c]).retryable

Unreadable(f) ==
    IF f.kind = "corrupt" THEN TRUE
    ELSE IF f.kind = "encrypted" THEN f.key # EncryptionKey
    ELSE FALSE

\* C10: loadTokenData() returns null exactly when there is no file; on a file
\* that does not parse or decrypt it throws the load error.
C10_LoadNullOnlyWhenAbsent ==
    loaded.kind # "none"
    => /\ (loaded.kind = "returned" /\ loaded.data = Null) <=> file = Absent
       /\ Unreadable(file) => loaded = [kind |-> "thrown", data |-> Null, error |-> LoadFailed]

\* a file written under another key was loaded
C10_Witness ==
    /\ loaded.kind = "thrown"
    /\ file.kind = "encrypted"
    /\ file.key # EncryptionKey

(***************************************************************************)
(* Calls without a refresh token, and several callers at once.             *)
(***************************************************************************)
\* tokenData is null or has no refresh token (the static access token)
LacksRefreshToken == IF tokenData = Null THEN TRUE ELSE tokenData.refreshToken = ""

\* getValidAccessToken() would not return the token as it is
NeedsRefresh ==
    IF tokenData = Null THEN TRUE ELSE now >= tokenData.expiresAt - refreshThreshold

\* this step is a call of refreshAccessToken() or getValidAccessToken() by c
Calls(c) == pc[c] = "idle" /\ op'[c] # "none"

\* C11: without a refresh token (or without tokenData) a call of
\* refreshAccessToken(), and a call of getValidAccessToken() that finds the token
\* stale or missing, throws at once an McpError, which is not retryable: it sends
\* no request, does not sleep, and leaves tokenData with its counters, and the
\* file, as they were; no request is ever sent while there is no refresh token.
C11_NoRefreshTokenFailsAtOnce ==
    [][\A c \in AllCallers :
          /\ (/\ Calls(c)
              /\ LacksRefreshToken
              /\ op'[c] = "getValidAccessToken" => NeedsRefresh)
             => /\ pc'[c] = "done"
                /\ result'[c].kind = "thrown"
                /\ result'[c].error.cls = "McpError"
                /\ ~result'[c].error.retryable
                /\ retryCount'[c] = 0
                /\ posts'[c] = posts[c]
                /\ sleeps'[c] = sleeps[c]
                /\ tokenData' = tokenData
                /\ file' = file
          /\ posts'[c] > posts[c] => ~LacksRefreshToken
      ]_vars

C11_Witness ==
    \E c \in AllCallers :
        /\ pc[c] = "done"
        /\ op[c] = "getValidAccessToken"
        /\ tokenData = staticTokenData(StartTime)
        /\ now >= tokenData.expiresAt - refreshThreshold
        /\ Len(hist[c]) = 1
        /\ Last(hist[c]).code = NoRefreshToken.code
        /\ result[c].kind = "thrown"
        /\ result[c].error.attempts = 0

\* the callers whose refresh request is out
InFlight == {c \in AllCallers : pc[c] = "await_post"}

\* C12: at most one refresh request is in flight at any time, however many
\* callers call refreshAccessToken() or getValidAccessToken() meanwhile.
C12_OneRequestInFlight == Cardinality(InFlight) <= 1

\* this step sends a refresh request for caller c
Posts(c) == posts'[c] > posts[c]

\* C13 as stated: when a request is sent, refreshAttempts (with this attempt
\* counted) is at most maxRetries and the previous attempt of any caller was
\* stamped at least retryDelay ago; the requests sent since the last successful
\* refresh or code exchange never number more than maxRetries.
C13_GuardsAgainstAnyAttempt ==
    [][\A c \in AllCallers :
          Posts(c)
          => /\ tokenData'.refreshAttempts <= maxRetries
             /\ attemptAt # Undefined => now - attemptAt >= retryDelay
             /\ issued' <= maxRetries
      ]_vars

\* C13, amended: the previous attempt was stamped at least retryDelay ago unless
\* a refresh or a code exchange has succeeded since that attempt.
C13_GuardsAgainstOpenAttempt ==
    [][\A c \in AllCallers :
          Posts(c)
          => /\ tokenData'.refreshAttempts <= maxRetries
             /\ tokenData'.lastRefreshAttempt = now
             /\ (attemptAt # Undefined /\ ~renewed) => now - attemptAt >= retryDelay
             /\ issued' <= maxRetries
      ]_vars

C13_Witness ==
    /\ InFlight = AllCallers
    /\ issued = maxRetries
    /\ tokenData.refreshAttempts = maxRetries
    /\ ~renewed
    /\ \A c \in AllCallers : op[c] = "getValidAccessToken"

(***************************************************************************)
(* The retry loop of getValidAccessToken.                                  *)
(***************************************************************************)
\* how far the call of caller c has got: the invocations of refreshAccessToken()
\* it has made, its sleeps, and its end
Progress(c) == Len(hist[c]) + sleeps[c] + (IF pc[c] = "done" THEN 1 ELSE 0)

\* this step is one of caller c's getValidAccessToken() call: the call itself,
\* the answer to its request, or the end of its sleep
StepOfGetValid(c) ==
    /\ pc[c] \in {"idle", "await_post", "sleep"}
    /\ op'[c] = "getValidAccessToken"
    /\ pc'[c] # pc[c] \/ hist'[c] # hist[c] \/ sleeps'[c] # sleeps[c]

\* C14: a getValidAccessToken() call invokes refreshAccessToken() at most
\* maxRetries times and sleeps at most maxRetries - 1 times, whatever the
\* provider answers; each of its steps takes it further (one more invocation,
\* one more sleep, or its end), a sleep is for retryDelay, and while it is not
\* over retryCount is below maxRetries: so it ends, with a token or an error,
\* once its requests are answered and its timers fire.
C14_GetValidTerminates ==
    [][\A c \in AllCallers :
          /\ op'[c] = "getValidAccessToken"
             => /\ Len(hist'[c]) <= maxRetries
                /\ sleeps'[c] <= maxRetries - 1
                /\ Progress(c)' <= 2 * maxRetries
                /\ pc'[c] \in {"await_post", "sleep"} => retryCount'[c] < maxRetries
                /\ pc'[c] = "sleep" => wakeAt'[c] <= now' + retryDelay
                /\ pc'[c] = "done" => result'[c].kind \in {"returned", "thrown"}
          /\ StepOfGetValid(c) => Progress(c)' > Progress(c)
      ]_vars

C14_Witness ==
    \E c \in AllCallers :
        /\ op[c] = "getValidAccessToken"
        /\ pc[c] = "done"
        /\ Len(hist[c]) = maxRetries
        /\ sleeps[c] = maxRetries - 1
        /\ \A i \in 1..Len(hist[c]) : hist[c][i].posted
        /\ Last(hist[c]).code = "OK"
        /\ result[c].kind = "returned"

(***************************************************************************)
(* The attempt counter.                                                    *)
(***************************************************************************)
\* tokenData.refreshAttempts || 0
Attempts(td) == IF td = Null THEN 0 ELSE OrZero(td.refreshAttempts)

\* the invocation of this step by caller c threw before sending a request
Rejected(c) == Invokes(c) /\ ~Posts(c)

\* C15 as stated: when no request is in flight refreshAttempts is the number of
\* requests that have failed since the last successful refresh (or exchange),
\* and an invocation rejected before its request leaves refreshAttempts as it was.
C15_CountsFailedRequests ==
    [][/\ InFlight' = {} => Attempts(tokenData') = issued'
       /\ \A c \in AllCallers : Rejected(c) => Attempts(tokenData') = Attempts(tokenData)
      ]_vars

\* C15, amended: when no request is in flight refreshAttempts is the number of
\* invocations that passed the cooldown check since the last successful refresh
\* or code exchange, that is the requests that failed since then plus the
\* invocations rejected with MAX_RETRIES_EXCEEDED; an invocation rejected by the
\* cooldown or for want of a refresh token leaves it as it was, one rejected
\* with MAX_RETRIES_EXCEEDED adds one to it.
C15_CountsStampedInvocations ==
    [][/\ InFlight' = {} => Attempts(tokenData') = stamps'
       /\ \A c \in AllCallers :
             /\ Rejected(c)
                => IF Last(hist'[c]).code = MaxRetriesError.code
                   THEN /\ Attempts(tokenData') = Attempts(tokenData) + 1
                        /\ stamps' = stamps + 1
                        /\ issued' = issued
                   ELSE /\ tokenData' = tokenData
                        /\ stamps' = stamps
                        /\ issued' = issued
             /\ Posts(c) => /\ stamps' = stamps + 1
                            /\ issued' = issued + 1
       /\ issued' <= stamps'
      ]_vars

C15_Witness ==
    /\ InFlight = {}
    /\ tokenData # Null
    /\ issued = maxRetries
    /\ stamps = maxRetries + 1
    /\ Attempts(tokenData) = maxRetries + 1
    /\ \E c \in AllCallers : pc[c] = "done" /\ Last(hist[c]).code = MaxRetriesError.code

\* C16: getValidAccessToken() sends a request only while the token is stale at
\* the time of the request (now >= expiresAt - refreshThreshold): once a refresh
\* has made the token fresh, no retry loop sends a further request.
C16_RequestsOnlyWhileStale ==
    [][\A c \in AllCallers :
          (Posts(c) /\ op'[c] = "getValidAccessToken") => NeedsRefresh
      ]_vars

(***************************************************************************)
(* What a refresh keeps, and what a failure leaves behind.                 *)
(***************************************************************************)
\* C17: a successful refresh keeps refreshToken, scope and codeVerifier of
\* tokenData as they were and adds or removes no field, whichever access token
\* and lifetime the response carries (these are all it reads of the response).
C17_RefreshKeepsOtherFields ==
    [][\A c \in AllCallers :
          RefreshReturns(c)
          => /\ tokenData'.refreshToken = tokenData.refreshToken
             /\ tokenData'.scope = tokenData.scope
             /\ tokenData'.codeVerifier = tokenData.codeVerifier
             /\ DOMAIN tokenData' = DOMAIN tokenData
             /\ tokenData'.accessToken = lastResponse'[c].access_token
      ]_vars

C17_Witness ==
    \E c \in AllCallers :
        /\ pc[c] = "done"
        /\ Len(hist[c]) > 0
        /\ Last(hist[c]).code = "OK"
        /\ tokenData.accessToken = lastResponse[c].access_token
        /\ tokenData.accessToken # StaticAccessToken
        /\ tokenData.codeVerifier = CodeVerifier
        /\ tokenData.refreshToken = RefreshToken
        /\ tokenData.scope = GrantedScope
        /\ tokenData.refreshAttempts = 0

\* this step is a code exchange that installed its tokens
ExchangeInstalls ==
    /\ pc' = pc
    /\ tokenData' # tokenData
    /\ tokenData' = exchangedTokenData(tokenData'.accessToken, RefreshToken,
                                       tokenData'.expiresAt - now, GrantedScope,
                                       CodeVerifier, now)
    /\ saved' = tokenData'

\* C18: once refreshAttempts has reached maxRetries, an invocation of
\* refreshAccessToken(), by refreshAccessToken() or by the loop of
\* getValidAccessToken(), sends no request and throws RATE_LIMIT or
\* MAX_RETRIES_EXCEEDED, whatever the time; refreshAttempts goes down only when a
\* refresh returns a token or a code exchange installs its tokens, and no failed
\* or rejected call lowers it.
C18_LockoutAbsorbing ==
    [][/\ \A c \in AllCallers :
             (Invokes(c) /\ Attempts(tokenData) >= maxRetries)
             => /\ ~Posts(c)
                /\ pc'[c] # "await_post"
                /\ Last(hist'[c]).code \in {CooldownError.code, MaxRetriesError.code}
                /\ Attempts(tokenData') >= maxRetries
       /\ Attempts(tokenData') < Attempts(tokenData)
          => \/ \E c \in AllCallers : RefreshReturns(c)
             \/ ExchangeInstalls
      ]_vars

C18_Witness ==
    \E c \in AllCallers :
        /\ pc[c] = "done"
        /\ op[c] = "getValidAccessToken"
        /\ posts[c] = 0
        /\ Len(hist[c]) > 0
        /\ Last(hist[c]).code = MaxRetriesError.code
        /\ Attempts(tokenData) > maxRetries + 1
        /\ now - attemptAt >= retryDelay

\* the fields of tokenData that a save and nothing else may change
Core(td) ==
    IF td = Null THEN Null
    ELSE [accessToken |-> td.accessToken, refreshToken |-> td.refreshToken,
          expiresAt |-> td.expiresAt, scope |-> td.scope]

\* this step ends an invocation of refreshAccessToken() by caller c with an error
RefreshFails(c) ==
    \/ Rejected(c)
    \/ pc[c] = "await_post" /\ pc'[c] # "await_post" /\ Last(hist'[c]).code # "OK"

\* this step wrote the file and then assigned tokenData
SaveSucceeds == saved' # Null /\ tokenData' = saved' /\ file' = encryptData(saved')

\* C19: tokenData is replaced only by a save that wrote the file; once this
\* process has saved a record, accessToken, refreshToken, expiresAt and scope of
\* tokenData are those of the record last saved; a refreshAccessToken() that
\* fails changes neither these fields nor the file, and nor does any other step
\* that is not a successful save (a failed code exchange among them).
C19_MemoryFollowsStore ==
    [][/\ saved' # Null => Core(tokenData') = Core(saved')
       /\ Core(tokenData') # Core(tokenData) => SaveSucceeds
       /\ \A c \in AllCallers :
             RefreshFails(c) => Core(tokenData') = Core(tokenData) /\ file' = file
       /\ file' # file => SaveSucceeds
      ]_vars

\* this step is the answer to caller c's request, a new access token, and the
\* save of the new record throws
SaveFailsAfterAnswer(c) ==
    /\ pc[c] = "await_post"
    /\ lastResponse'[c].status = 200
    /\ Last(hist'[c]).code # "OK"

\* C20: when the provider answers a refresh with a token and the save throws,
\* refreshAccessToken() throws the retryable UNKNOWN_ERROR and tokenData is as
\* before (old accessToken and expiresAt, refreshAttempts not reset);
\* getValidAccessToken() counts it as a retryable failure: it sleeps retryDelay
\* if retries are left, and on waking sends another request when the attempt
\* counter allows one.
C20_SaveFailureIsRetryable ==
    [][\A c \in AllCallers :
          /\ SaveFailsAfterAnswer(c)
             => /\ Last(hist'[c]).code = "UNKNOWN_ERROR"
                /\ Last(hist'[c]).retryable
                /\ tokenData' = tokenData
                /\ op[c] = "refreshAccessToken" => result'[c] = Thrown(GenericError)
                /\ op[c] = "getValidAccessToken"
                   => /\ retryCount'[c] = retryCount[c] + 1
                      /\ IF retryCount'[c] < maxRetries
                         THEN /\ pc'[c] = "sleep"
                              /\ sleeps'[c] = sleeps[c] + 1
                              /\ wakeAt'[c] = now + retryDelay
                         ELSE /\ pc'[c] = "done"
                              /\ result'[c].kind = "thrown"
                              /\ result'[c].error.attempts = retryCount'[c]
          /\ (/\ pc[c] = "sleep"
              /\ lastResponse[c].status = 200
              /\ Invokes(c)
              /\ Attempts(tokenData) < maxRetries)
             => Posts(c)
      ]_vars

C20_Witness ==
    \E c \in AllCallers :
        /\ pc[c] = "sleep"
        /\ op[c] = "getValidAccessToken"
        /\ lastResponse[c].status = 200
        /\ Last(hist[c]).code = "UNKNOWN_ERROR"
        /\ tokenData.accessToken # lastResponse[c].access_token
        /\ tokenData.refreshAttempts > 0
        /\ tokenData.refreshAttempts < maxRetries
        /\ now >= tokenData.expiresAt - refreshThreshold
====
